---- MODULE Spec2Model ----
(***************************************************************************)
(* Vehicle routing with capacity and time windows: the scoring rules of    *)
(* vehicle_routing/constraints.py and the demo data generator of           *)
(* vehicle_routing/demo_data.py.                                           *)
(*                                                                         *)
(* Spec     the route plan under the Solver's moves, with every rule's     *)
(*          running (incrementally maintained) match total.                *)
(* GenSpec  dataset definitions, their validation, and generate_demo_data. *)
(*                                                                         *)
(* Scores are pairs <<hard, soft>> of accumulated negative penalties.      *)
(* Times of day are seconds since midnight; a datetime is a record         *)
(* [day, time].                                                            *)
(***************************************************************************)
EXTENDS Integers, Sequences, FiniteSets, TLC

(***************************************************************************)
(* Bounds of the model.                                                    *)
(***************************************************************************)
NumVehicles == 4      \* vehicles of the scored plan
NumVisits == 3        \* visits of the scored plan
MaxParam == 3         \* demand and capacity bounds of a dataset definition range over 0..MaxParam
MaxCount == 2         \* visit_count and vehicle_count range over 0..MaxCount
MaxSeed == 3          \* seeds range over 0..MaxSeed
MaxDay == 1           \* the calendar runs over days 0..MaxDay
MaxRuns == 2          \* invocations of generate_demo_data

Vehicles == 1..NumVehicles
Visits == 1..NumVisits
NoVehicle == 0

VARIABLES
    capacity,         \* Vehicle.capacity, per vehicle
    visit,            \* per visit: demand, location, min_start_time, max_end_time, service_duration
    visits,           \* Vehicle.visits: the ordered list of visit ids, per vehicle
    matches,          \* per constraint name and entity, the impact of the match the Solver holds
    constraintTotal   \* per constraint name, the match total the Solver keeps incrementally

scoreVars == <<capacity, visit, visits, matches, constraintTotal>>

VARIABLES
    props,            \* the _DemoDataProperties of DemoData.NEW_LOCATION as written
    status,           \* "new", then what _DemoDataProperties(...) did: "ok" or the ValueError raised
    today,            \* date.today(), a day number
    globalRandom,     \* the state of the module-level generator of random (random.choice)
    plans             \* the VehicleRoutePlans generate_demo_data has returned, in order

genVars == <<props, status, today, globalRandom, plans>>

vars == <<scoreVars, genVars>>

(***************************************************************************)
(* constraints.py: names, flags, thresholds.                               *)
(***************************************************************************)
VEHICLE_CAPACITY == "vehicleCapacity"
MINIMIZE_TRAVEL_TIME == "minimizeTravelTime"
SERVICE_FINISHED_AFTER_MAX_END_TIME == "serviceFinishedAfterMaxEndTime"
BALANCE_LOAD == "balanceLoad"
LIMIT_DRIVING_TIME == "limitDrivingTime"
MINIMIZE_MAX_LOAD == "minimizeMaxLoad"
ENCOURAGE_FULL_UTILIZATION == "encourageFullUtilization"
MINIMIZE_VEHICLE_COUNT == "minimizeVehicleCount"

ConstraintNames ==
    { VEHICLE_CAPACITY, MINIMIZE_TRAVEL_TIME, SERVICE_FINISHED_AFTER_MAX_END_TIME,
      BALANCE_LOAD, LIMIT_DRIVING_TIME, MINIMIZE_MAX_LOAD,
      ENCOURAGE_FULL_UTILIZATION, MINIMIZE_VEHICLE_COUNT }

\* The module-level ENABLE_* flags as shipped.
DefaultFlags ==
    [ ENABLE_TIME_WINDOW_CONSTRAINTS |-> TRUE,
      ENABLE_LOAD_BALANCING |-> FALSE,
      ENABLE_DRIVING_TIME_LIMIT |-> FALSE,
      ENABLE_MINIMIZE_MAX_LOAD |-> FALSE,
      ENABLE_ENCOURAGE_FULL_UTILIZATION |-> FALSE,
      ENABLE_MINIMIZE_VEHICLE_COUNT |-> TRUE ]

\* Every setting of the six flags.
FlagSettings ==
    [ ENABLE_TIME_WINDOW_CONSTRAINTS : BOOLEAN,
      ENABLE_LOAD_BALANCING : BOOLEAN,
      ENABLE_DRIVING_TIME_LIMIT : BOOLEAN,
      ENABLE_MINIMIZE_MAX_LOAD : BOOLEAN,
      ENABLE_ENCOURAGE_FULL_UTILIZATION : BOOLEAN,
      ENABLE_MINIMIZE_VEHICLE_COUNT : BOOLEAN ]

DRIVING_TIME_LIMIT_SECONDS == 3 * 60 * 60
MAX_LOAD_PER_VEHICLE == 15
MIN_LOAD_THRESHOLD == 5

(***************************************************************************)
(* demo_data.py: the clock constants the visits' windows are built from.   *)
(***************************************************************************)
SERVICE_DURATION_MINUTES == <<10, 20, 30, 40>>
MORNING_WINDOW_START == 8 * 3600
MORNING_WINDOW_END == 12 * 3600
AFTERNOON_WINDOW_START == 13 * 3600
AFTERNOON_WINDOW_END == 18 * 3600
VEHICLE_START_TIME == 7 * 3600 + 30 * 60

(***************************************************************************)
(* The score type: HardSoftScore.                                          *)
(***************************************************************************)
ZERO == <<0, 0>>
HardSoftScore_of(hard, soft) == <<hard, soft>>
Plus(a, b) == <<a[1] + b[1], a[2] + b[2]>>
Minus(a, b) == <<a[1] - b[1], a[2] - b[2]>>
\* .penalize(weight, match_weigher): the match subtracts weight * magnitude.
penalize(weight, magnitude) == <<0 - weight[1] * magnitude, 0 - weight[2] * magnitude>>

(***************************************************************************)
(* The domain the rules read (Location, Visit, Vehicle).  Locations are    *)
(* points 0..3 of a line with the depot at 0; one unit takes               *)
(* DrivingSecondsPerUnit to drive.                                         *)
(***************************************************************************)
DrivingSecondsPerUnit == 79 * 60
HOME_LOCATION == 0

Abs(n) == IF n < 0 THEN 0 - n ELSE n
Max(a, b) == IF a >= b THEN a ELSE b

driving_time_to(a, b) == Abs(a - b) * DrivingSecondsPerUnit

\* Vehicle.calculate_total_demand(): the loop over self.visits, here over the
\* first n stops of the route.
RECURSIVE DemandOfFirst(_, _)
DemandOfFirst(route, n) ==
    IF n = 0 THEN 0
    ELSE DemandOfFirst(route, n - 1) + visit[route[n]].demand

calculate_total_demand(route) == DemandOfFirst(route, Len(route))

\* Vehicle.total_demand: the derived attribute, recomputed on access.
total_demand(route) == calculate_total_demand(route)

\* Vehicle.calculate_total_driving_time_seconds(): home -> first -> ... -> n-th stop.
RECURSIVE DriveToStop(_, _)
DriveToStop(route, n) ==
    IF n = 0 THEN 0
    ELSE DriveToStop(route, n - 1)
         + driving_time_to(IF n = 1 THEN HOME_LOCATION ELSE visit[route[n - 1]].location,
                           visit[route[n]].location)

calculate_total_driving_time_seconds(route) == DriveToStop(route, Len(route))

total_driving_time_seconds(route) == calculate_total_driving_time_seconds(route)

\* The vehicle a visit is assigned to, NoVehicle when unassigned.
VehicleOf(vs, x) ==
    LET holders == { v \in Vehicles : \E i \in 1..Len(vs[v]) : vs[v][i] = x }
    IN  IF holders = {} THEN NoVehicle ELSE CHOOSE v \in holders : TRUE

IndexOf(route, x) == CHOOSE i \in 1..Len(route) : route[i] = x

\* Arrival (service start) at the n-th stop of a route: the vehicle waits for
\* the window to open.
RECURSIVE arrival_time(_, _)
arrival_time(route, n) ==
    IF n = 1
    THEN Max(VEHICLE_START_TIME + driving_time_to(HOME_LOCATION, visit[route[1]].location),
             visit[route[1]].min_start_time)
    ELSE Max(arrival_time(route, n - 1) + visit[route[n - 1]].service_duration
                + driving_time_to(visit[route[n - 1]].location, visit[route[n]].location),
             visit[route[n]].min_start_time)

\* The computed service-finish time of an assigned visit.
departure_time(vs, x) ==
    LET route == vs[VehicleOf(vs, x)]
    IN  arrival_time(route, IndexOf(route, x)) + visit[x].service_duration

is_service_finished_after_max_end_time(vs, x) ==
    /\ VehicleOf(vs, x) # NoVehicle
    /\ departure_time(vs, x) > visit[x].max_end_time

service_finished_delay_in_minutes(vs, x) ==
    IF VehicleOf(vs, x) = NoVehicle THEN 0
    ELSE (departure_time(vs, x) - visit[x].max_end_time) \div 60

(***************************************************************************)
(* constraints.py: the rules.  Each gives the contribution of one entity   *)
(* (a vehicle, or a visit for the time-window rule) in plan vs.            *)
(***************************************************************************)
vehicle_capacity_unfiltered(vs, v) ==
    penalize(HardSoftScore_of(1, 0), calculate_total_demand(vs[v]) - capacity[v])

vehicle_capacity(vs, v) ==
    IF calculate_total_demand(vs[v]) > capacity[v]
    THEN penalize(HardSoftScore_of(1, 0), calculate_total_demand(vs[v]) - capacity[v])
    ELSE ZERO

service_finished_after_max_end_time_soft(vs, x) ==
    IF is_service_finished_after_max_end_time(vs, x)
    THEN penalize(HardSoftScore_of(0, 1), service_finished_delay_in_minutes(vs, x))
    ELSE ZERO

service_finished_after_max_end_time(vs, x) ==
    IF is_service_finished_after_max_end_time(vs, x)
    THEN penalize(HardSoftScore_of(1, 0), service_finished_delay_in_minutes(vs, x))
    ELSE ZERO

limit_driving_time(vs, v) ==
    IF total_driving_time_seconds(vs[v]) > DRIVING_TIME_LIMIT_SECONDS
    THEN penalize(HardSoftScore_of(1, 0),
                  total_driving_time_seconds(vs[v]) - DRIVING_TIME_LIMIT_SECONDS)
    ELSE ZERO

minimize_travel_time(vs, v) ==
    penalize(HardSoftScore_of(0, 1), calculate_total_driving_time_seconds(vs[v]))

\* A balance rule that measures each load against the heaviest load of the fleet.
MaxLoad(vs) ==
    CHOOSE m \in { total_demand(vs[w]) : w \in Vehicles } :
        \A w \in Vehicles : total_demand(vs[w]) <= m

balance_load_against_fleet(vs, v) ==
    penalize(HardSoftScore_of(0, 5), MaxLoad(vs) - total_demand(vs[v]))

balance_load(vs, v) ==
    penalize(HardSoftScore_of(0, 5), total_demand(vs[v]))

minimize_max_load_unfiltered(vs, v) ==
    penalize(HardSoftScore_of(0, 10), total_demand(vs[v]) - MAX_LOAD_PER_VEHICLE)

minimize_max_load(vs, v) ==
    IF total_demand(vs[v]) > MAX_LOAD_PER_VEHICLE
    THEN penalize(HardSoftScore_of(0, 10), total_demand(vs[v]) - MAX_LOAD_PER_VEHICLE)
    ELSE ZERO

encourage_full_utilization_by_count(vs, v) ==
    IF Len(vs[v]) < MIN_LOAD_THRESHOLD
    THEN penalize(HardSoftScore_of(0, 3), MIN_LOAD_THRESHOLD - Len(vs[v]))
    ELSE ZERO

encourage_full_utilization(vs, v) ==
    IF total_demand(vs[v]) < MIN_LOAD_THRESHOLD
    THEN penalize(HardSoftScore_of(0, 3), MIN_LOAD_THRESHOLD - total_demand(vs[v]))
    ELSE ZERO

minimize_vehicle_count_per_visit(vs, v) ==
    IF Len(vs[v]) > 0
    THEN penalize(HardSoftScore_of(0, 20), Len(vs[v]))
    ELSE ZERO

minimize_vehicle_count(vs, v) ==
    IF Len(vs[v]) > 0
    THEN penalize(HardSoftScore_of(0, 20), 1)
    ELSE ZERO

\* define_constraints(factory) under flags f: the names of the registered rules.
define_constraints(f) ==
    { VEHICLE_CAPACITY }
    \cup (IF f.ENABLE_TIME_WINDOW_CONSTRAINTS THEN { SERVICE_FINISHED_AFTER_MAX_END_TIME } ELSE {})
    \cup (IF f.ENABLE_DRIVING_TIME_LIMIT THEN { LIMIT_DRIVING_TIME } ELSE {})
    \cup { MINIMIZE_TRAVEL_TIME }
    \cup (IF f.ENABLE_LOAD_BALANCING THEN { BALANCE_LOAD } ELSE {})
    \cup (IF f.ENABLE_MINIMIZE_MAX_LOAD THEN { MINIMIZE_MAX_LOAD } ELSE {})
    \cup (IF f.ENABLE_ENCOURAGE_FULL_UTILIZATION THEN { ENCOURAGE_FULL_UTILIZATION } ELSE {})
    \cup (IF f.ENABLE_MINIMIZE_VEHICLE_COUNT THEN { MINIMIZE_VEHICLE_COUNT } ELSE {})

(***************************************************************************)
(* Score aggregation.                                                      *)
(***************************************************************************)
\* factory.for_each(...): the entity class a rule ranges over.
ForEach(name) == IF name = SERVICE_FINISHED_AFTER_MAX_END_TIME THEN Visits ELSE Vehicles

\* The contribution of entity e to the rule called name.
Match(name, vs, e) ==
    CASE name = VEHICLE_CAPACITY -> vehicle_capacity(vs, e)
      [] name = SERVICE_FINISHED_AFTER_MAX_END_TIME -> service_finished_after_max_end_time(vs, e)
      [] name = LIMIT_DRIVING_TIME -> limit_driving_time(vs, e)
      [] name = MINIMIZE_TRAVEL_TIME -> minimize_travel_time(vs, e)
      [] name = BALANCE_LOAD -> balance_load(vs, e)
      [] name = MINIMIZE_MAX_LOAD -> minimize_max_load(vs, e)
      [] name = ENCOURAGE_FULL_UTILIZATION -> encourage_full_utilization(vs, e)
      [] name = MINIMIZE_VEHICLE_COUNT -> minimize_vehicle_count(vs, e)

RECURSIVE SumMatches(_, _, _)
SumMatches(name, vs, entities) ==
    IF entities = {} THEN ZERO
    ELSE LET e == CHOOSE x \in entities : TRUE
         IN  Plus(Match(name, vs, e), SumMatches(name, vs, entities \ {e}))

RECURSIVE SumTotals(_, _)
SumTotals(total, names) ==
    IF names = {} THEN ZERO
    ELSE LET n == CHOOSE x \in names : TRUE
         IN  Plus(total[n], SumTotals(total, names \ {n}))

\* From scratch: every match of one rule over the whole plan.
RuleFromScratch(name, vs) == SumMatches(name, vs, ForEach(name))

\* From scratch: the total of every rule.
FromScratch(vs) == [n \in ConstraintNames |-> RuleFromScratch(n, vs)]

\* The aggregated score under flags f: the totals of the rules define_constraints registers.
Aggregate(total, f) == SumTotals(total, define_constraints(f))

ScoreFromScratch(f, vs) == Aggregate(FromScratch(vs), f)

\* The score the Solver reads under flags f, from the running totals.
Score(f) == Aggregate(constraintTotal, f)

(***************************************************************************)
(* The Solver's moves on the list variable Vehicle.visits, with the        *)
(* incremental update: the matches of the touched entities are retracted   *)
(* on the old plan and inserted on the new one.                            *)
(***************************************************************************)
InsertAt(route, p, x) == SubSeq(route, 1, p - 1) \o <<x>> \o SubSeq(route, p, Len(route))

RemoveAt(route, p) == SubSeq(route, 1, p - 1) \o SubSeq(route, p + 1, Len(route))

Without(vs, x) ==
    LET v == VehicleOf(vs, x)
    IN  [vs EXCEPT ![v] = RemoveAt(vs[v], IndexOf(vs[v], x))]

TouchedVehicles(old, new) == { v \in Vehicles : old[v] # new[v] }

\* The visits whose derived times a change of these routes can move.
TouchedVisits(old, new) ==
    { x \in Visits : \E v \in TouchedVehicles(old, new) :
                        \/ \E i \in 1..Len(old[v]) : old[v][i] = x
                        \/ \E i \in 1..Len(new[v]) : new[v][i] = x }

RECURSIVE SumHeld(_, _)
SumHeld(held, entities) ==
    IF entities = {} THEN ZERO
    ELSE LET e == CHOOSE x \in entities : TRUE
         IN  Plus(held[e], SumHeld(held, entities \ {e}))

\* The touched entities' matches, re-evaluated on the new plan; the others are kept.
Reinserted(name, touched, new) ==
    [e \in ForEach(name) |-> IF e \in touched THEN Match(name, new, e) ELSE matches[name][e]]

ApplyMove(new) ==
    \E plan \in {new} :
    \E vehicles \in {TouchedVehicles(visits, plan)} :
    \E stops \in {TouchedVisits(visits, plan)} :
    \E held \in {[n \in ConstraintNames |->
                    Reinserted(n, IF n = SERVICE_FINISHED_AFTER_MAX_END_TIME
                                  THEN stops ELSE vehicles, plan)]} :
        /\ visits' = plan
        /\ matches' = held
        /\ constraintTotal' =
              [n \in ConstraintNames |->
                  LET touched == IF n = SERVICE_FINISHED_AFTER_MAX_END_TIME
                                 THEN stops ELSE vehicles
                  IN  Plus(Minus(constraintTotal[n], SumHeld(matches[n], touched)),
                           SumHeld(held[n], touched))]
        /\ UNCHANGED <<capacity, visit, genVars>>

Assign(x, v, p) ==
    /\ VehicleOf(visits, x) = NoVehicle
    /\ p \in 1..(Len(visits[v]) + 1)
    /\ ApplyMove([visits EXCEPT ![v] = InsertAt(visits[v], p, x)])

Unassign(x) ==
    /\ VehicleOf(visits, x) # NoVehicle
    /\ ApplyMove(Without(visits, x))

Move(x, v, p) ==
    /\ VehicleOf(visits, x) # NoVehicle
    /\ LET rest == Without(visits, x)
       IN  /\ p \in 1..(Len(rest[v]) + 1)
           /\ [rest EXCEPT ![v] = InsertAt(rest[v], p, x)] # visits
           /\ ApplyMove([rest EXCEPT ![v] = InsertAt(rest[v], p, x)])

(***************************************************************************)
(* The problem instances.  Two kinds of visit: a morning stop three units  *)
(* out and an afternoon stop one unit out (the vehicle arrives early and   *)
(* waits).  The fleet alternates two capacities.                           *)
(***************************************************************************)
VisitKinds ==
    { [demand |-> 4, location |-> 3,
       min_start_time |-> MORNING_WINDOW_START, max_end_time |-> MORNING_WINDOW_END,
       service_duration |-> SERVICE_DURATION_MINUTES[2] * 60],
      [demand |-> 6, location |-> 1,
       min_start_time |-> AFTERNOON_WINDOW_START, max_end_time |-> AFTERNOON_WINDOW_END,
       service_duration |-> SERVICE_DURATION_MINUTES[3] * 60] }

FleetCapacity == [v \in Vehicles |-> IF v % 2 = 1 THEN 10 ELSE 15]

\* Visits are interchangeable: instances are taken up to renaming, demands ascending.
Init ==
    /\ capacity = FleetCapacity
    /\ visit \in [Visits -> VisitKinds]
    /\ \A x \in Visits : x + 1 \in Visits => visit[x].demand <= visit[x + 1].demand
    /\ visits = [v \in Vehicles |-> <<>>]
    /\ matches = [n \in ConstraintNames |-> [e \in ForEach(n) |-> Match(n, visits, e)]]
    /\ constraintTotal = [n \in ConstraintNames |-> RuleFromScratch(n, visits)]
    /\ props = <<>> /\ status = "unused" /\ today = 0 /\ globalRandom = 1 /\ plans = <<>>

Next ==
    \/ \E x \in Visits, v \in Vehicles, p \in 1..NumVisits : Assign(x, v, p)
    \/ \E x \in Visits : Unassign(x)
    \/ \E x \in Visits, v \in Vehicles, p \in 1..NumVisits : Move(x, v, p)

Spec == Init /\ [][Next]_vars

(***************************************************************************)
(* demo_data.py: the dataset definition and its validation.                *)
(* Coordinates are whole degrees.                                          *)
(***************************************************************************)
FIRST_NAMES == <<"Amy", "Beth", "Chad", "Dan", "Elsa", "Flo", "Gus", "Hugo", "Ivy", "Jay">>
LAST_NAMES == <<"Cole", "Fox", "Green", "Jones", "King", "Li", "Poe", "Rye", "Smith", "Watt">>
WAREHOUSE_LOCATION == [latitude |-> 1, longitude |-> 1]

\* _DemoDataProperties.__post_init__: "ok", or the ValueError of the first check that fails.
post_init_strict_demand_only(p) ==
    IF p.min_demand < 1 THEN "minDemand must be greater than zero"
    ELSE IF p.max_demand < 1 THEN "maxDemand must be greater than zero"
    ELSE IF p.min_demand > p.max_demand THEN "maxDemand must be greater than minDemand"
    ELSE IF p.min_vehicle_capacity < 1 THEN "minVehicleCapacity must be greater than zero"
    ELSE IF p.max_vehicle_capacity < 1 THEN "maxVehicleCapacity must be greater than zero"
    ELSE IF p.min_vehicle_capacity >= p.max_vehicle_capacity
         THEN "maxVehicleCapacity must be greater than minVehicleCapacity"
    ELSE IF p.visit_count < 1 THEN "visitCount must be greater than zero"
    ELSE IF p.vehicle_count < 1 THEN "vehicleCount must be greater than zero"
    ELSE IF p.north_east_corner.latitude <= p.south_west_corner.latitude
         THEN "northEastCorner.getLatitude must be greater than southWestCorner.getLatitude"
    ELSE IF p.north_east_corner.longitude <= p.south_west_corner.longitude
         THEN "northEastCorner.getLongitude must be greater than southWestCorner.getLongitude"
    ELSE "ok"

post_init(p) ==
    IF p.min_demand < 1 THEN "minDemand must be greater than zero"
    ELSE IF p.max_demand < 1 THEN "maxDemand must be greater than zero"
    ELSE IF p.min_demand >= p.max_demand THEN "maxDemand must be greater than minDemand"
    ELSE IF p.min_vehicle_capacity < 1 THEN "minVehicleCapacity must be greater than zero"
    ELSE IF p.max_vehicle_capacity < 1 THEN "maxVehicleCapacity must be greater than zero"
    ELSE IF p.min_vehicle_capacity >= p.max_vehicle_capacity
         THEN "maxVehicleCapacity must be greater than minVehicleCapacity"
    ELSE IF p.visit_count < 1 THEN "visitCount must be greater than zero"
    ELSE IF p.vehicle_count < 1 THEN "vehicleCount must be greater than zero"
    ELSE IF p.north_east_corner.latitude <= p.south_west_corner.latitude
         THEN "northEastCorner.getLatitude must be greater than southWestCorner.getLatitude"
    ELSE IF p.north_east_corner.longitude <= p.south_west_corner.longitude
         THEN "northEastCorner.getLongitude must be greater than southWestCorner.getLongitude"
    ELSE "ok"

(***************************************************************************)
(* random.Random: a stream of draws that is a function of the seed alone.  *)
(* The generator here is a small multiplicative congruential one; a draw   *)
(* is its state x in 1..RandomModulus-1.                                   *)
(***************************************************************************)
RandomModulus == 31
RandomMultiplier == 11

\* Random(seed): the state after seeding.
Random(seed) == (seed % (RandomModulus - 1)) + 1

RandomNext(x) == (RandomMultiplier * x) % RandomModulus

\* The n-th draw of the stream seeded with seed.
RECURSIVE RandomAt(_, _)
RandomAt(seed, n) ==
    IF n = 0 THEN Random(seed) ELSE RandomNext(RandomAt(seed, n - 1))

\* random.randrange(start, end): start <= result < end.
randrange(x, start, end) == start + (x % (end - start))
\* random.randint(a, b): a <= result <= b.
randint(x, a, b) == randrange(x, a, b + 1)
\* random.choice(seq)
choice(x, seq) == seq[1 + (x % Len(seq))]
\* random.uniform(a, b): a <= result <= b
uniform(x, a, b) == a + (x % (b - a + 1))
\* random.random() > 0.5
random_above_half(x) == 2 * x > RandomModulus

\* ints(random, start, end): one value of the generator.
ints_closed(x, start, end) == randint(x, start, end)

ints(x, start, end) == randrange(x, start, end)

\* values(random, sequence): one value of the generator (sequence is indexed from 0 there).
values(x, sequence) == sequence[1 + randint(x, 0, Len(sequence) - 1)]

\* generate_names(random): f'{first} {last}', kept as the pair.
generate_names(x1, x2) == <<choice(x1, FIRST_NAMES), choice(x2, LAST_NAMES)>>

\* str(i) of a list index.
DecimalDigits == <<"0", "1", "2", "3", "4", "5", "6", "7", "8", "9">>
str(i) == DecimalDigits[i + 1]

\* datetime.combine(date, time)
datetime_combine(day, time) == [day |-> day, time |-> time]

\* timedelta(minutes=m), in seconds
timedelta_minutes(m) == m * 60

\* MORNING_WINDOW_END if morning_window else AFTERNOON_WINDOW_END
window_end(morning_window) ==
    IF morning_window THEN MORNING_WINDOW_END ELSE AFTERNOON_WINDOW_END

\* generate_demo_data with DemoData = <<demo_data>>, called on day `day`.
\* Draws are taken in the order of the calls: one per vehicle, then eight per visit.
generate_demo_data(demo_data, day) ==
    LET Draw(n) == RandomAt(demo_data.seed, n)
        all_lat_lon_ranges ==
            <<[sw |-> demo_data.south_west_corner, ne |-> demo_data.north_east_corner]>>
        random_location(x1, x2, x3) ==
            LET range == choice(x1, all_lat_lon_ranges)
            IN  [latitude |-> uniform(x2, range.sw.latitude, range.ne.latitude),
                 longitude |-> uniform(x3, range.sw.longitude, range.ne.longitude)]
        NewVehicle(i) ==
            [id |-> str(i),
             capacity |-> ints(Draw(i + 1), demo_data.min_vehicle_capacity,
                               demo_data.max_vehicle_capacity + 1),
             home_location |-> WAREHOUSE_LOCATION,
             departure_time |-> datetime_combine(day + 1, demo_data.vehicle_start_time)]
        NewVisit(i) ==
            LET b == demo_data.vehicle_count + 8 * i
                morning_window == random_above_half(Draw(b + 7))
            IN  [id |-> str(i),
                 name |-> generate_names(Draw(b + 1), Draw(b + 2)),
                 location |-> random_location(Draw(b + 3), Draw(b + 4), Draw(b + 5)),
                 demand |-> ints(Draw(b + 6), demo_data.min_demand, demo_data.max_demand + 1),
                 min_start_time |->
                     datetime_combine(day + 1, IF morning_window THEN MORNING_WINDOW_START
                                               ELSE AFTERNOON_WINDOW_START),
                 max_end_time |->
                     datetime_combine(day + 1, window_end(morning_window)),
                 service_duration |->
                     timedelta_minutes(values(Draw(b + 8), SERVICE_DURATION_MINUTES))]
    IN  [name |-> "demo",
         south_west_corner |-> demo_data.south_west_corner,
         north_east_corner |-> demo_data.north_east_corner,
         vehicles |-> [i \in 1..demo_data.vehicle_count |-> NewVehicle(i - 1)],
         visits |-> [i \in 1..demo_data.visit_count |-> NewVisit(i - 1)]]

(***************************************************************************)
(* The dataset definitions tried, and the generator's operations.          *)
(***************************************************************************)
Coordinates == {0, 1, 2}

Definitions ==
    [ seed : 0..MaxSeed,
      visit_count : 0..MaxCount,
      vehicle_count : 0..MaxCount,
      vehicle_start_time : {VEHICLE_START_TIME},
      min_demand : 0..MaxParam,
      max_demand : 0..MaxParam,
      min_vehicle_capacity : 0..MaxParam,
      max_vehicle_capacity : 0..MaxParam,
      south_west_corner : {[latitude |-> 1, longitude |-> 1]},
      north_east_corner : [latitude : Coordinates, longitude : Coordinates] ]

GenInit ==
    /\ props \in Definitions
    /\ status = "new"
    /\ today = 0
    /\ globalRandom = Random(0)
    /\ plans = <<>>
    /\ capacity = <<>> /\ visit = <<>> /\ visits = <<>>
    /\ matches = <<>> /\ constraintTotal = <<>>

\* class DemoData(Enum): NEW_LOCATION = _DemoDataProperties(...), at import.
Construct ==
    /\ status = "new"
    /\ status' = post_init(props)
    /\ UNCHANGED <<props, today, globalRandom, plans, scoreVars>>

\* generate_demo_data(DemoData.NEW_LOCATION)
GenerateNamed ==
    /\ status = "ok"
    /\ Len(plans) < MaxRuns
    /\ plans' = Append(plans, generate_demo_data(props, today))
    /\ UNCHANGED <<props, status, today, globalRandom, scoreVars>>

\* generate_demo_data(None): choice(list(DemoData)) draws from the module-level generator.
GenerateAny ==
    /\ status = "ok"
    /\ Len(plans) < MaxRuns
    /\ plans' = Append(plans, generate_demo_data(choice(globalRandom, <<props>>), today))
    /\ globalRandom' = RandomNext(globalRandom)
    /\ UNCHANGED <<props, status, today, scoreVars>>

\* Midnight passes.
NextDay ==
    /\ today < MaxDay
    /\ today' = today + 1
    /\ UNCHANGED <<props, status, globalRandom, plans, scoreVars>>

GenNext == Construct \/ GenerateNamed \/ GenerateAny \/ NextDay

GenSpec == GenInit /\ [][GenNext]_vars

(***************************************************************************)
(* Properties of the scoring rules (under Spec).                           *)
(***************************************************************************)
RECURSIVE SumDemands(_)
SumDemands(xs) ==
    IF xs = {} THEN 0
    ELSE LET x == CHOOSE y \in xs : TRUE
         IN  visit[x].demand + SumDemands(xs \ {x})

\* The summed demand of the visits that are in vehicle v's sequence.
AssignedDemand(v) == SumDemands({ x \in Visits : VehicleOf(visits, x) = v })

UsedVehicles == { v \in Vehicles : visits[v] # <<>> }

DemandsOf(v) == [i \in 1..Len(visits[v]) |-> visit[visits[v][i]].demand]

\* C1: after any sequence of assign / unassign / move, under every setting of the
\* flags, the score aggregated from the incrementally kept totals equals the score
\* recomputed from scratch over the whole plan.
IncrementalEqualsFromScratch ==
    \E scratch \in {FromScratch(visits)} :
        \A f \in FlagSettings : Score(f) = Aggregate(scratch, f)

\* Every visit assigned after at least three moves, the hard rules and the travel rule
\* with a non-zero running total.
IncrementalWitness ==
    /\ constraintTotal[MINIMIZE_TRAVEL_TIME] # ZERO
    /\ \A x \in Visits : VehicleOf(visits, x) # NoVehicle
    /\ constraintTotal[VEHICLE_CAPACITY] # ZERO
    /\ constraintTotal[SERVICE_FINISHED_AFTER_MAX_END_TIME] # ZERO
    /\ Score(DefaultFlags) = ScoreFromScratch(DefaultFlags, visits)
    /\ Score(DefaultFlags)[1] < 0

VehicleCapacityRule ==
    /\ \A v \in Vehicles :
          vehicle_capacity(visits, v) =
              IF AssignedDemand(v) > capacity[v]
              THEN <<0 - (AssignedDemand(v) - capacity[v]), 0>>
              ELSE ZERO
    /\ \A f \in FlagSettings : VEHICLE_CAPACITY \in define_constraints(f)

\* Capacity 10 with demands [4, 4, 4]: magnitude 2.
VehicleCapacityWitness ==
    \E v \in Vehicles :
        /\ capacity[v] = 10
        /\ DemandsOf(v) = <<4, 4, 4>>
        /\ vehicle_capacity(visits, v) = <<0 - 2, 0>>
        /\ constraintTotal[VEHICLE_CAPACITY] = <<0 - 2, 0>>

\* C4: for every visit the time-window rule contributes <<-(delay in minutes), 0>> when
\* its service finishes after its max end time, and nothing when it finishes at or
\* before it (or is unassigned); the contribution is that visit's alone.
TimeWindowRule ==
    /\ \A x \in Visits :
          service_finished_after_max_end_time(visits, x) =
              IF VehicleOf(visits, x) # NoVehicle
                 /\ departure_time(visits, x) > visit[x].max_end_time
              THEN <<0 - ((departure_time(visits, x) - visit[x].max_end_time) \div 60), 0>>
              ELSE ZERO
    /\ constraintTotal[SERVICE_FINISHED_AFTER_MAX_END_TIME] =
          SumMatches(SERVICE_FINISHED_AFTER_MAX_END_TIME, visits, Visits)
    /\ \A f \in FlagSettings :
          f.ENABLE_TIME_WINDOW_CONSTRAINTS
              <=> SERVICE_FINISHED_AFTER_MAX_END_TIME \in define_constraints(f)

\* A visit finishing 7 minutes after its max end time contributes 7; the visit before
\* it on the same route finishes in time and contributes nothing.
TimeWindowWitness ==
    \E v \in Vehicles :
        /\ Len(visits[v]) = 2
        /\ departure_time(visits, visits[v][2]) = visit[visits[v][2]].max_end_time + 7 * 60
        /\ service_finished_after_max_end_time(visits, visits[v][2]) = <<0 - 7, 0>>
        /\ departure_time(visits, visits[v][1]) <= visit[visits[v][1]].max_end_time
        /\ service_finished_after_max_end_time(visits, visits[v][1]) = ZERO

\* C5: the vehicle-count rule contributes <<0, -20>> for each vehicle with at least one
\* visit, whatever its load, and nothing for an empty one: its total is
\* 20 x (number of used vehicles), on the soft tier only.
VehicleCountRule ==
    /\ \A v \in Vehicles :
          minimize_vehicle_count(visits, v) = IF Len(visits[v]) > 0 THEN <<0, 0 - 20>> ELSE ZERO
    /\ constraintTotal[MINIMIZE_VEHICLE_COUNT] = <<0, 0 - 20 * Cardinality(UsedVehicles)>>

\* Three vehicles used and one idle; the used ones carry unequal loads; the total is 3 x 20.
VehicleCountWitness ==
    /\ Cardinality(UsedVehicles) = 3
    /\ Cardinality(Vehicles \ UsedVehicles) >= 1
    /\ \E v, w \in UsedVehicles : AssignedDemand(v) # AssignedDemand(w)
    /\ constraintTotal[MINIMIZE_VEHICLE_COUNT] = <<0, 0 - 60>>
    /\ MINIMIZE_VEHICLE_COUNT \in define_constraints(DefaultFlags)

\* C6: under every setting of the flags, a vehicle with no visits has a zero match in
\* every registered per-vehicle rule.
EmptyVehicleContributesNothing ==
    \A f \in FlagSettings : \A v \in Vehicles :
        visits[v] = <<>> =>
            \A n \in define_constraints(f) \ {SERVICE_FINISHED_AFTER_MAX_END_TIME} :
                Match(n, visits, v) = ZERO

\* C10: every match of every rule is a non-negative penalty on one tier only (hard for
\* the three hard rules, soft for the five soft ones), so under every setting of the
\* flags hard <= 0 and soft <= 0; under the shipped flags hard = 0 exactly when no
\* vehicle is over capacity and no visit finishes late.
HardRules == { VEHICLE_CAPACITY, SERVICE_FINISHED_AFTER_MAX_END_TIME, LIMIT_DRIVING_TIME }

Refused(p) ==
    \/ p.min_demand < 1
    \/ p.max_demand < 1
    \/ p.min_demand >= p.max_demand
    \/ p.min_vehicle_capacity < 1
    \/ p.max_vehicle_capacity < 1
    \/ p.min_vehicle_capacity >= p.max_vehicle_capacity
    \/ p.visit_count < 1
    \/ p.vehicle_count < 1
    \/ ~ ( /\ p.north_east_corner.latitude > p.south_west_corner.latitude
           /\ p.north_east_corner.longitude > p.south_west_corner.longitude )

\* C7: once the definition has been constructed, it ended in a ValueError exactly when
\* one of the listed conditions holds; after an error no plan is ever returned, and a
\* definition violating none of them is accepted.
ValidationFailsFast ==
    /\ status # "new" => (status # "ok" <=> Refused(props))
    /\ status # "ok" => plans = <<>>

\* Both demand bounds positive but not increasing: construction has raised, nothing
\* was generated.
ValidationWitness ==
    /\ props.min_demand >= 1 /\ props.max_demand >= 1
    /\ props.min_demand >= props.max_demand
    /\ status = "maxDemand must be greater than minDemand"
    /\ plans = <<>>

\* What C8 compares of a returned plan.
Contents(plan) ==
    [ capacities |-> [i \in DOMAIN plan.vehicles |-> plan.vehicles[i].capacity],
      visits |-> [i \in DOMAIN plan.visits |->
                    [ name |-> plan.visits[i].name,
                      location |-> plan.visits[i].location,
                      demand |-> plan.visits[i].demand,
                      min_start_time |-> plan.visits[i].min_start_time,
                      max_end_time |-> plan.visits[i].max_end_time,
                      service_duration |-> plan.visits[i].service_duration ]] ]

\* C8: any two plans returned for the same dataset and seed have identical contents.
GeneratorDeterministic ==
    \A i, j \in 1..Len(plans) : Contents(plans[i]) = Contents(plans[j])

\* What does hold of two runs: everything but the calendar day of the windows.
WithoutDay(plan) ==
    [ capacities |-> [i \in DOMAIN plan.vehicles |-> plan.vehicles[i].capacity],
      visits |-> [i \in DOMAIN plan.visits |->
                    [ name |-> plan.visits[i].name,
                      location |-> plan.visits[i].location,
                      demand |-> plan.visits[i].demand,
                      min_start_time |-> plan.visits[i].min_start_time.time,
                      max_end_time |-> plan.visits[i].max_end_time.time,
                      service_duration |-> plan.visits[i].service_duration ]] ]

GeneratorDeterministicUpToDay ==
    \A i, j \in 1..Len(plans) : WithoutDay(plans[i]) = WithoutDay(plans[j])

DateTimeBefore(a, b) == a.day < b.day \/ (a.day = b.day /\ a.time < b.time)

\* C9: every returned plan has vehicle_count vehicles and visit_count visits with
\* distinct identifiers, capacities and demands inside their configured ranges, one
\* home location, for each visit the morning pair or the afternoon pair of window
\* bounds (so start < end), and a service duration of 10, 20, 30 or 40 minutes.
PlanConsistent ==
    \A k \in 1..Len(plans) :
        LET plan == plans[k]
        IN  /\ Len(plan.vehicles) = props.vehicle_count
            /\ Len(plan.visits) = props.visit_count
            /\ \A i, j \in DOMAIN plan.vehicles :
                  i # j => plan.vehicles[i].id # plan.vehicles[j].id
            /\ \A i, j \in DOMAIN plan.visits :
                  i # j => plan.visits[i].id # plan.visits[j].id
            /\ \A i \in DOMAIN plan.vehicles :
                  /\ plan.vehicles[i].capacity \in
                        props.min_vehicle_capacity..props.max_vehicle_capacity
                  /\ plan.vehicles[i].home_location = WAREHOUSE_LOCATION
            /\ \A i \in DOMAIN plan.visits :
                  LET v == plan.visits[i]
                  IN  /\ v.demand \in props.min_demand..props.max_demand
                      /\ v.min_start_time.day = v.max_end_time.day
                      /\ <<v.min_start_time.time, v.max_end_time.time>> \in
                            { <<8 * 3600, 12 * 3600>>, <<13 * 3600, 18 * 3600>> }
                      /\ DateTimeBefore(v.min_start_time, v.max_end_time)
                      /\ v.service_duration \in { 10 * 60, 20 * 60, 30 * 60, 40 * 60 }

\* A returned plan of two vehicles and two visits in which both bounds of the capacity
\* range and both bounds of the demand range occur, and both kinds of window.
PlanConsistentWitness ==
    \E k \in 1..Len(plans) :
        LET plan == plans[k]
        IN  /\ Len(plan.vehicles) = 2 /\ Len(plan.visits) = 2
            /\ { plan.vehicles[i].capacity : i \in 1..2 } =
                  { props.min_vehicle_capacity, props.max_vehicle_capacity }
            /\ { plan.visits[i].demand : i \in 1..2 } = { props.min_demand, props.max_demand }
            /\ { plan.visits[i].min_start_time.time : i \in 1..2 } =
                  { MORNING_WINDOW_START, AFTERNOON_WINDOW_START }

====
